---------------------------- MODULE Spec2Model ----------------------------
(***************************************************************************)
(* The warning ratchet (src/bin/warning-ratchet.rs): one invocation scans  *)
(* the files named on its command line for #[allow(..)] suppressions,      *)
(* loads the baseline ledger from .therug.yaml, compares the two with      *)
(* vis_a_vis, and shrinks or (with UPDATE_ANYWAY=1) grows and rewrites     *)
(* the baseline before exiting with a code that names the verdict.         *)
(***************************************************************************)
EXTENDS Integers, FiniteSets, Sequences, TLC

\* ------------------------------------------------------------------ bounds

\* Largest number of suppressions of one lint that one scanned file holds.
MaxCount ==
    2

\* Invocations that may exist side by side; Spec runs them one at a time.
NumProcs ==
    2

\* Most declarations directly inside one file, module or block.
MaxItems ==
    3

\* Deepest nesting of the loops of count_lints_in_items: the one over the
\* items of the file and those over the items of inline modules.
MaxDepth ==
    2

\* Largest count the scan of one file reaches for one lint.
MaxTally ==
    MaxItems

\* ------------------------------------------------------------- the domain

Procs ==
    1..NumProcs

SeqProcs ==
    {1}

\* Paths that can be named on the command line, exactly as supplied. A path
\* without the .rs extension is skipped by find_supressed_lints and stays in
\* relevant_files, as a .rs path that cannot be opened does (Missing below).
Names ==
    {"a.rs", "b.rs"}

Lints ==
    {"dead_code", "deprecated"}

\* Path::new(&name).extension()
Extension(name) ==
    IF name \in {"a.rs", "b.rs"} THEN "rs" ELSE "txt"

\* The values UPDATE_ANYWAY can have in the environment of an invocation.
EnvUnset ==
    "<unset>"

EnvValues ==
    {EnvUnset, "1", "true"}

\* BTreeMap<String, usize> and BTreeMap<String, BTreeMap<String, usize>>
EmptyCounts ==
    [l \in {} |-> 0]

EmptyLedger ==
    [f \in {} |-> EmptyCounts]

LintCounts(lo) ==
    UNION {[D -> lo..MaxCount] : D \in SUBSET Lints}

\* What reading and parsing one path yields: the file cannot be opened, it
\* is not valid Rust, or it parses and count_suppressed_lints gives `lints`
\* (every lint it names is counted at least once).
Missing ==
    [kind |-> "missing", lints |-> EmptyCounts]

Unparseable ==
    [kind |-> "bad", lints |-> EmptyCounts]

Content ==
    {Missing, Unparseable} \cup {[kind |-> "parsed", lints |-> c] : c \in LintCounts(1)}

\* The file systems an invocation over `files` can meet: a path without the
\* .rs extension holds no Rust.
FileSystems(files) ==
    {fs \in [files -> Content] :
        \A n \in files : Extension(n) # "rs" => fs[n] = Unparseable}

Min(a, b) ==
    IF a < b THEN a ELSE b

Max(a, b) ==
    IF a > b THEN a ELSE b

\* --------------------------------------------------------- pure functions

\* The files find_supressed_lints reads: .rs paths that can be opened.
ScannedFiles(filenames, fs) ==
    {n \in filenames : Extension(n) = "rs" /\ fs[n].kind # "missing"}

\* ScanPanics for a scan that skips what it cannot parse.
ScanPanics_Never(filenames, fs) ==
    FALSE

\* syn::parse_file(..).unwrap() panics on the first file that does not parse.
ScanPanics(filenames, fs) ==
    \E n \in ScannedFiles(filenames, fs) : fs[n].kind = "bad"

find_supressed_lints(filenames, fs) ==
    [n \in ScannedFiles(filenames, fs) |-> fs[n].lints]

\* ------------------------------------------------------ the syntax tree

\* The path of an attribute: #[allow(..)] and one that is not a suppression.
AttrPaths ==
    {"allow", "warn"}

\* What an attribute's list can name: a lint by its identifier, or a path
\* of several segments, for which get_ident() is None.
NestedMetas ==
    Lints \cup {"clippy::all"}

\* The lists of an attribute: one lint, two lints, and a list without any
\* identifier.
NestedLists ==
    {<<"dead_code">>, <<"dead_code", "deprecated">>, <<"clippy::all">>}

\* #[allow(..)] over each list, and #[warn(dead_code)].
Attributes ==
    {a \in [path : AttrPaths, nested : NestedLists] :
        a.path = "allow" \/ a.nested = <<"dead_code">>}

\* The attributes of one declaration: none or one.
AttrLists ==
    {<< >>} \cup {<<a>> : a \in Attributes}

\* The attributes of a declaration inside an impl, trait or extern block
\* (ImplItem, TraitItem, ForeignItem): none, or one suppression.
NestedAttrLists ==
    {<< >>, <<[path |-> "allow", nested |-> <<"dead_code">>]>>}

\* The body of an impl, trait or extern block: the attributes of each of
\* its declarations.
Bodies ==
    UNION {[1..k -> NestedAttrLists] : k \in 0..MaxItems}

\* syn::Item. "Fn" stands for the kinds that hold no declarations (Const,
\* Enum, ExternCrate, Fn, Macro, Macro2, Static, Struct, TraitAlias, Type,
\* Union, Use), "ModDecl" for `mod name;` (content None), "Mod" for an inline
\* module, whose `len` items the walk reads when it descends into it, and
\* "Verbatim" for Item::Verbatim and the kinds syn may add.
Items ==
    {[kind |-> k, attrs |-> a, len |-> 0, items |-> << >>] :
        k \in {"Fn", "ModDecl", "Verbatim"}, a \in AttrLists}
    \cup
    {[kind |-> k, attrs |-> a, len |-> Len(b), items |-> b] :
        k \in {"ForeignMod", "Impl", "Trait"}, a \in AttrLists, b \in Bodies}
    \cup
    {[kind |-> "Mod", attrs |-> a, len |-> n, items |-> << >>] :
        a \in AttrLists, n \in 0..MaxItems}

NoItem ==
    [kind |-> "none", attrs |-> << >>, len |-> 0, items |-> << >>]

\* syn::File: its inner attributes and the number of its items.
SourceFile(attrs, n) ==
    [kind |-> "File", attrs |-> attrs, len |-> n, items |-> << >>]

\* *count += item_count, or result.insert(lint, item_count).
AddLint(result, lint, n) ==
    [l \in DOMAIN result \cup {lint} |->
        IF l = lint
        THEN IF l \in DOMAIN result THEN result[l] + n ELSE n
        ELSE result[l]]

\* The inner loop of count_lints_in_attrs: each nested meta that is a path
\* with an identifier adds item_count to its lint.
RECURSIVE count_nested(_, _, _)
count_nested(result, nested, n) ==
    IF nested = << >>
    THEN result
    ELSE count_nested(IF Head(nested) \in Lints
                      THEN AddLint(result, Head(nested), n)
                      ELSE result,
                      Tail(nested), n)

RECURSIVE count_lints_in_attrs(_, _, _)
count_lints_in_attrs(result, attrs, item_count) ==
    IF attrs = << >>
    THEN result
    ELSE count_lints_in_attrs(
             IF Head(attrs).path = "allow"
             THEN count_nested(result, Head(attrs).nested, Max(item_count, 1))
             ELSE result,
             Tail(attrs), item_count)

\* The item_count that the arm of count_lints_in_items for this kind of
\* item passes to count_lints_in_attrs.
ItemCount(it) ==
    IF it.kind \in {"ForeignMod", "Impl", "Mod"} THEN it.len ELSE 1

\* One turn of the loop of count_lints_in_items, before any descent.
count_lints_in_item(result, it) ==
    IF it.kind = "Verbatim"
    THEN result
    ELSE count_lints_in_attrs(result, it.attrs, ItemCount(it))

\* The arm for Item::Mod with content calls count_lints_in_items on it.
Descends(it) ==
    it.kind = "Mod" /\ it.len > 0

\* A loop that has no item left returns to the loop that called it.
RECURSIVE Unwind(_)
Unwind(stack) ==
    IF stack # << >> /\ stack[Len(stack)] = 0
    THEN Unwind(SubSeq(stack, 1, Len(stack) - 1))
    ELSE stack

\* ------------------------------------------------------- the comparison

\* NotInOther with >= for >: an unchanged count is taken for a regression.
NotInOther_OrEqual(self, other) ==
    \E file \in DOMAIN self :
        IF file \in DOMAIN other
        THEN \E lint \in DOMAIN self[file] :
                IF lint \in DOMAIN other[file]
                THEN self[file][lint] >= other[file][lint]
                ELSE TRUE
        ELSE Cardinality(DOMAIN self[file]) > 0

\* NotInOther without the else-if: a file other does not hold is let pass.
NotInOther_NewFileOk(self, other) ==
    \E file \in DOMAIN self \cap DOMAIN other :
        \E lint \in DOMAIN self[file] :
            IF lint \in DOMAIN other[file]
            THEN self[file][lint] > other[file][lint]
            ELSE TRUE

\* Pass 1 of vis_a_vis: some pair of self is new or larger than in other.
NotInOther(self, other) ==
    \E file \in DOMAIN self :
        IF file \in DOMAIN other
        THEN \E lint \in DOMAIN self[file] :
                IF lint \in DOMAIN other[file]
                THEN self[file][lint] > other[file][lint]
                ELSE TRUE
        ELSE Cardinality(DOMAIN self[file]) > 0

\* Pass 1 of vis_a_vis: some pair of self is smaller than in other.
SmallerInOther(self, other) ==
    \E file \in DOMAIN self \cap DOMAIN other :
        \E lint \in DOMAIN self[file] \cap DOMAIN other[file] :
            self[file][lint] < other[file][lint]

\* GoneFromSelf with the else the source leaves out: a file of other that
\* self does not hold counts as resolved.
GoneFromSelf_AnyFile(self, other) ==
    \E ofile \in DOMAIN other :
        \E lint \in DOMAIN other[ofile] :
            /\ other[ofile][lint] > 0
            /\ ofile \in DOMAIN self => lint \notin DOMAIN self[ofile]

\* GoneFromSelf without `&& *count > 0`: a lint recorded at 0 counts as
\* resolved again.
GoneFromSelf_ZeroCounts(self, other) ==
    \E ofile \in DOMAIN other \cap DOMAIN self :
        \E lint \in DOMAIN other[ofile] : lint \notin DOMAIN self[ofile]

\* Pass 2 of vis_a_vis: other has a positive lint that a file of self lacks.
GoneFromSelf(self, other) ==
    \E ofile \in DOMAIN other \cap DOMAIN self :
        \E lint \in DOMAIN other[ofile] :
            lint \notin DOMAIN self[ofile] /\ other[ofile][lint] > 0

\* vis_a_vis without the early return: a later improvement overwrites the
\* regression found before it.
vis_a_vis_ImprovementWins(self, other) ==
    IF SmallerInOther(self, other) \/ GoneFromSelf(self, other)
    THEN "ProperSubset"
    ELSE IF NotInOther(self, other) THEN "NotASubset" ELSE "Expected"

vis_a_vis(self, other) ==
    IF NotInOther(self, other) THEN "NotASubset"
    ELSE IF SmallerInOther(self, other) \/ GoneFromSelf(self, other)
         THEN "ProperSubset"
         ELSE "Expected"

\* shrink_around that clears every file the scan did not reach, examined
\* or not.
shrink_around_ClearUnexamined(self, other, examined_files) ==
    [key \in DOMAIN self |->
        IF key \in DOMAIN other
        THEN [lint \in DOMAIN self[key] |->
                IF lint \in DOMAIN other[key]
                THEN Min(self[key][lint], other[key][lint])
                ELSE 0]
        ELSE EmptyCounts]

\* shrink_around with max for min.
shrink_around_Max(self, other, examined_files) ==
    [key \in DOMAIN self |->
        IF key \in DOMAIN other
        THEN [lint \in DOMAIN self[key] |->
                IF lint \in DOMAIN other[key]
                THEN Max(self[key][lint], other[key][lint])
                ELSE 0]
        ELSE IF key \in examined_files THEN EmptyCounts ELSE self[key]]

\* shrink_around that leaves the count of a lint the scanned file lost.
shrink_around_KeepGone(self, other, examined_files) ==
    [key \in DOMAIN self |->
        IF key \in DOMAIN other
        THEN [lint \in DOMAIN self[key] |->
                IF lint \in DOMAIN other[key]
                THEN Min(self[key][lint], other[key][lint])
                ELSE self[key][lint]]
        ELSE IF key \in examined_files THEN EmptyCounts ELSE self[key]]

\* shrink_around without the branch for examined files that were not scanned.
shrink_around_NoClear(self, other, examined_files) ==
    [key \in DOMAIN self |->
        IF key \in DOMAIN other
        THEN [lint \in DOMAIN self[key] |->
                IF lint \in DOMAIN other[key]
                THEN Min(self[key][lint], other[key][lint])
                ELSE 0]
        ELSE self[key]]

shrink_around(self, other, examined_files) ==
    [key \in DOMAIN self |->
        IF key \in DOMAIN other
        THEN [lint \in DOMAIN self[key] |->
                IF lint \in DOMAIN other[key]
                THEN Min(self[key][lint], other[key][lint])
                ELSE 0]
        ELSE IF key \in examined_files THEN EmptyCounts ELSE self[key]]

\* grow_around that takes the observed count without the max.
grow_around_Overwrite(self, other) ==
    [key \in DOMAIN self \cup DOMAIN other |->
        IF key \in DOMAIN other
        THEN IF key \in DOMAIN self
             THEN [lint \in DOMAIN self[key] \cup DOMAIN other[key] |->
                     IF lint \in DOMAIN other[key]
                     THEN other[key][lint]
                     ELSE self[key][lint]]
             ELSE other[key]
        ELSE self[key]]

\* grow_around with min for max on the pairs both ledgers hold.
grow_around_Min(self, other) ==
    [key \in DOMAIN self \cup DOMAIN other |->
        IF key \in DOMAIN other
        THEN IF key \in DOMAIN self
             THEN [lint \in DOMAIN self[key] \cup DOMAIN other[key] |->
                     IF lint \in DOMAIN other[key]
                     THEN IF lint \in DOMAIN self[key]
                          THEN Min(self[key][lint], other[key][lint])
                          ELSE other[key][lint]
                     ELSE self[key][lint]]
             ELSE other[key]
        ELSE self[key]]

grow_around(self, other) ==
    [key \in DOMAIN self \cup DOMAIN other |->
        IF key \in DOMAIN other
        THEN IF key \in DOMAIN self
             THEN [lint \in DOMAIN self[key] \cup DOMAIN other[key] |->
                     IF lint \in DOMAIN other[key]
                     THEN IF lint \in DOMAIN self[key]
                          THEN Max(self[key][lint], other[key][lint])
                          ELSE other[key][lint]
                     ELSE self[key][lint]]
             ELSE other[key]
        ELSE self[key]]

\* UpdateAnyway that takes any value of the variable for the override.
UpdateAnyway_AnyValue(v) ==
    v # EnvUnset

\* UpdateAnyway with != for ==: the override is taken unless the variable
\* is "1".
UpdateAnyway_Inverted(v) ==
    v # "1"

\* env::var("UPDATE_ANYWAY").map(|v| v == "1").unwrap_or(false)
UpdateAnyway(v) ==
    v = "1"

\* ExitStatus with the two exits of main exchanged.
ExitStatus_Swapped(v) ==
    CASE v = "Expected" -> 0
      [] v = "ProperSubset" -> 1
      [] v = "NotASubset" -> 2

\* main: falling off the end on Expected, process::exit(2), process::exit(1).
ExitStatus(v) ==
    CASE v = "Expected" -> 0
      [] v = "ProperSubset" -> 2
      [] v = "NotASubset" -> 1

\* ------------------------------------------------------------------ state

VARIABLES
    store,      \* .therug.yaml: absent, a complete ledger, or torn by a write
    pc,         \* where each invocation is in main
    args,       \* relevant_files
    env,        \* the value of UPDATE_ANYWAY
    contents,   \* what the named paths held when they were scanned
    observed,   \* observed_supressed_lints
    loaded,     \* what look_under_therug returned
    expected,   \* expected_supressed_lints, updated in place
    verdict,    \* what vis_a_vis returned
    exitCode,   \* the process exit status, -1 while running
    reads,      \* times this invocation read the store
    writes,     \* times this invocation wrote the store
    store0,     \* the store as it was when the invocation began
    prev,       \* how the run that this one repeats ended, "none" if it repeats none
    result,     \* count_suppressed_lints: the counts of the file being scanned
    todo,       \* items left in each loop of count_lints_in_items, innermost last
    item,       \* the item that the scan handled last
    prior,      \* `result` as it was before that item
    initial     \* the store as it was before the first invocation began

scanVars ==
    <<result, todo, item, prior>>

mainVars ==
    <<store, pc, args, env, contents, observed, loaded, expected, verdict,
      exitCode, reads, writes, store0, prev, initial>>

vars ==
    <<store, pc, args, env, contents, observed, loaded, expected, verdict,
      exitCode, reads, writes, store0, prev, result, todo, item, prior,
      initial>>

Absent ==
    [kind |-> "absent", lints |-> EmptyLedger]

Torn ==
    [kind |-> "torn", lints |-> EmptyLedger]

Complete(ledger) ==
    [kind |-> "complete", lints |-> ledger]

NoPrev ==
    "none"

\* How a finished run ended: its verdict, "Grown" for a NotASubset whose
\* baseline was grown and rewritten under the override.
Outcome(v, e) ==
    IF v = "NotASubset" /\ UpdateAnyway(e) THEN "Grown" ELSE v

EmptyFs ==
    [n \in {} |-> Missing]

Init ==
    /\ store = Absent
    /\ pc = [p \in Procs |-> "idle"]
    /\ args = [p \in Procs |-> {}]
    /\ env = [p \in Procs |-> EnvUnset]
    /\ contents = [p \in Procs |-> EmptyFs]
    /\ observed = [p \in Procs |-> EmptyLedger]
    /\ loaded = [p \in Procs |-> EmptyLedger]
    /\ expected = [p \in Procs |-> EmptyLedger]
    /\ verdict = [p \in Procs |-> "none"]
    /\ exitCode = [p \in Procs |-> -1]
    /\ reads = [p \in Procs |-> 0]
    /\ writes = [p \in Procs |-> 0]
    /\ store0 = [p \in Procs |-> Absent]
    /\ prev = [p \in Procs |-> NoPrev]
    /\ result = EmptyCounts
    /\ todo = << >>
    /\ item = NoItem
    /\ prior = EmptyCounts
    /\ initial = store

\* ---------------------------------------------------------------- actions

\* main, lines 148-152: collect the arguments, scan the files, and load the
\* store. A file that does not parse panics before the store is read; an
\* absent store is an empty ledger; a store that does not deserialize panics
\* in look_under_therug's expect.
Begin(p, files, e, fs, pv) ==
    /\ args' = [args EXCEPT ![p] = files]
    /\ env' = [env EXCEPT ![p] = e]
    /\ contents' = [contents EXCEPT ![p] = fs]
    /\ prev' = [prev EXCEPT ![p] = pv]
    /\ store0' = [store0 EXCEPT ![p] = store]
    /\ verdict' = [verdict EXCEPT ![p] = "none"]
    /\ writes' = [writes EXCEPT ![p] = 0]
    /\ IF ScanPanics(files, fs)
       THEN /\ pc' = [pc EXCEPT ![p] = "aborted"]
            /\ exitCode' = [exitCode EXCEPT ![p] = 101]
            /\ observed' = [observed EXCEPT ![p] = EmptyLedger]
            /\ reads' = [reads EXCEPT ![p] = 0]
            /\ loaded' = [loaded EXCEPT ![p] = EmptyLedger]
            /\ expected' = [expected EXCEPT ![p] = EmptyLedger]
       ELSE /\ observed' = [observed EXCEPT ![p] = find_supressed_lints(files, fs)]
            /\ reads' = [reads EXCEPT ![p] = 1]
            /\ IF store.kind = "torn"
               THEN /\ pc' = [pc EXCEPT ![p] = "aborted"]
                    /\ exitCode' = [exitCode EXCEPT ![p] = 101]
                    /\ loaded' = [loaded EXCEPT ![p] = EmptyLedger]
                    /\ expected' = [expected EXCEPT ![p] = EmptyLedger]
               ELSE /\ pc' = [pc EXCEPT ![p] = "loaded"]
                    /\ exitCode' = [exitCode EXCEPT ![p] = -1]
                    /\ loaded' = [loaded EXCEPT ![p] = store.lints]
                    /\ expected' = [expected EXCEPT ![p] = store.lints]
    /\ UNCHANGED store
    /\ UNCHANGED scanVars
    /\ UNCHANGED initial

\* A fresh invocation: any arguments, any environment, any file contents.
Invoke(p) ==
    /\ pc[p] = "idle"
    /\ \E files \in SUBSET Names, e \in EnvValues :
          \E fs \in FileSystems(files) : Begin(p, files, e, fs, NoPrev)

\* The invoker retries a finished run: same arguments, unchanged files.
Rerun(p) ==
    /\ pc[p] = "done"
    /\ \E e \in EnvValues :
          Begin(p, args[p], e, contents[p], Outcome(verdict[p], env[p]))

\* main, lines 154-172 up to the call of sweep_under_therug or the exit.
Compare(p) ==
    /\ pc[p] = "loaded"
    /\ LET v == vis_a_vis(observed[p], expected[p])
       IN /\ verdict' = [verdict EXCEPT ![p] = v]
          /\ \/ /\ v = "Expected"
                /\ pc' = [pc EXCEPT ![p] = "done"]
                /\ exitCode' = [exitCode EXCEPT ![p] = ExitStatus(v)]
                /\ UNCHANGED expected
             \/ /\ v = "ProperSubset"
                /\ expected' = [expected EXCEPT ![p] =
                                    shrink_around(@, observed[p], args[p])]
                /\ pc' = [pc EXCEPT ![p] = "sweeping"]
                /\ UNCHANGED exitCode
             \/ /\ v = "NotASubset"
                /\ UpdateAnyway(env[p])
                /\ expected' = [expected EXCEPT ![p] = grow_around(@, observed[p])]
                /\ pc' = [pc EXCEPT ![p] = "sweeping"]
                /\ UNCHANGED exitCode
             \/ /\ v = "NotASubset"
                /\ ~UpdateAnyway(env[p])
                /\ pc' = [pc EXCEPT ![p] = "done"]
                /\ exitCode' = [exitCode EXCEPT ![p] = ExitStatus(v)]
                /\ UNCHANGED expected
    /\ UNCHANGED <<store, args, env, contents, observed, loaded, reads, writes,
                   store0, prev>>
    /\ UNCHANGED scanVars
    /\ UNCHANGED initial

\* sweep_under_therug, line 64: File::create truncates the store.
Create(p) ==
    /\ pc[p] = "sweeping"
    /\ store' = Torn
    /\ pc' = [pc EXCEPT ![p] = "created"]
    /\ UNCHANGED <<args, env, contents, observed, loaded, expected, verdict,
                   exitCode, reads, writes, store0, prev>>
    /\ UNCHANGED scanVars
    /\ UNCHANGED initial

\* sweep_under_therug, line 64: File::create fails and unwrap panics.
CreateFails(p) ==
    /\ pc[p] = "sweeping"
    /\ pc' = [pc EXCEPT ![p] = "aborted"]
    /\ exitCode' = [exitCode EXCEPT ![p] = 101]
    /\ UNCHANGED <<store, args, env, contents, observed, loaded, expected,
                   verdict, reads, writes, store0, prev>>
    /\ UNCHANGED scanVars
    /\ UNCHANGED initial

\* sweep_under_therug, line 65, then process::exit(2) or process::exit(1).
WriteAll(p) ==
    /\ pc[p] = "created"
    /\ store' = Complete(expected[p])
    /\ writes' = [writes EXCEPT ![p] = @ + 1]
    /\ pc' = [pc EXCEPT ![p] = "done"]
    /\ exitCode' = [exitCode EXCEPT ![p] = ExitStatus(verdict[p])]
    /\ UNCHANGED <<args, env, contents, observed, loaded, expected, verdict,
                   reads, store0, prev>>
    /\ UNCHANGED scanVars
    /\ UNCHANGED initial

\* sweep_under_therug, line 65: write_all fails part-way and unwrap panics.
WriteAllFails(p) ==
    /\ pc[p] = "created"
    /\ pc' = [pc EXCEPT ![p] = "aborted"]
    /\ exitCode' = [exitCode EXCEPT ![p] = 101]
    /\ UNCHANGED <<store, args, env, contents, observed, loaded, expected,
                   verdict, reads, writes, store0, prev>>
    /\ UNCHANGED scanVars
    /\ UNCHANGED initial

\* The process is gone; its memory with it.
Finish(p) ==
    /\ pc[p] \in {"done", "aborted"}
    /\ pc' = [pc EXCEPT ![p] = "idle"]
    /\ args' = [args EXCEPT ![p] = {}]
    /\ env' = [env EXCEPT ![p] = EnvUnset]
    /\ contents' = [contents EXCEPT ![p] = EmptyFs]
    /\ observed' = [observed EXCEPT ![p] = EmptyLedger]
    /\ loaded' = [loaded EXCEPT ![p] = EmptyLedger]
    /\ expected' = [expected EXCEPT ![p] = EmptyLedger]
    /\ verdict' = [verdict EXCEPT ![p] = "none"]
    /\ exitCode' = [exitCode EXCEPT ![p] = -1]
    /\ reads' = [reads EXCEPT ![p] = 0]
    /\ writes' = [writes EXCEPT ![p] = 0]
    /\ store0' = [store0 EXCEPT ![p] = Absent]
    /\ prev' = [prev EXCEPT ![p] = NoPrev]
    /\ UNCHANGED store
    /\ UNCHANGED scanVars
    /\ UNCHANGED initial

Step(p) ==
    \/ Invoke(p)
    \/ Compare(p)
    \/ Create(p)
    \/ CreateFails(p)
    \/ WriteAll(p)
    \/ WriteAllFails(p)
    \/ Finish(p)

\* Sequential invocations: the hook runs one ratchet at a time.
Next ==
    \E p \in SeqProcs : Step(p)

Spec ==
    Init /\ [][Next]_vars

\* Sequential invocations in which the invoker may also retry a finished run
\* as it was: the same behaviours, with `prev` recording what is repeated.
RetryNext ==
    \E p \in SeqProcs : Step(p) \/ Rerun(p)

RetrySpec ==
    Init /\ [][RetryNext]_vars

\* ------------------------------------------------- concurrent invocations

\* The invoker splits the list of changed files into chunks and starts
\* one invocation on each: here one file per invocation, in turn.
Chunk(p) ==
    IF p % 2 = 1 THEN {"a.rs"} ELSE {"b.rs"}

\* A store that a history of runs has filled: every file holds every lint
\* at the same count.
FilledStores ==
    {Complete([f \in Names |-> [l \in Lints |-> c]]) : c \in 1..MaxCount}

ConcInit ==
    /\ store \in FilledStores
    /\ pc = [p \in Procs |-> "idle"]
    /\ args = [p \in Procs |-> {}]
    /\ env = [p \in Procs |-> EnvUnset]
    /\ contents = [p \in Procs |-> EmptyFs]
    /\ observed = [p \in Procs |-> EmptyLedger]
    /\ loaded = [p \in Procs |-> EmptyLedger]
    /\ expected = [p \in Procs |-> EmptyLedger]
    /\ verdict = [p \in Procs |-> "none"]
    /\ exitCode = [p \in Procs |-> -1]
    /\ reads = [p \in Procs |-> 0]
    /\ writes = [p \in Procs |-> 0]
    /\ store0 = [p \in Procs |-> Absent]
    /\ prev = [p \in Procs |-> NoPrev]
    /\ result = EmptyCounts
    /\ todo = << >>
    /\ item = NoItem
    /\ prior = EmptyCounts
    /\ initial = store

\* An invocation on its chunk, without the override, whatever the file
\* holds.
ConcInvoke(p) ==
    /\ pc[p] = "idle"
    /\ \E fs \in FileSystems(Chunk(p)) :
          Begin(p, Chunk(p), EnvUnset, fs, NoPrev)

\* Each invocation runs once; their steps interleave in any order.
ConcNext ==
    \E p \in Procs :
        \/ ConcInvoke(p)
        \/ Compare(p)
        \/ Create(p)
        \/ CreateFails(p)
        \/ WriteAll(p)
        \/ WriteAllFails(p)

ConcSpec ==
    ConcInit /\ [][ConcNext]_vars

\* A store in which every file holds the same lints, each at the largest
\* count: every lint, one of them, or none.
StartStores ==
    {Complete([f \in Names |-> [l \in L |-> MaxCount]]) : L \in SUBSET Lints}

\* The invocations start side by side on one of those stores, which
\* `initial` keeps.
BoundedInit ==
    /\ store \in StartStores
    /\ pc = [p \in Procs |-> "idle"]
    /\ args = [p \in Procs |-> {}]
    /\ env = [p \in Procs |-> EnvUnset]
    /\ contents = [p \in Procs |-> EmptyFs]
    /\ observed = [p \in Procs |-> EmptyLedger]
    /\ loaded = [p \in Procs |-> EmptyLedger]
    /\ expected = [p \in Procs |-> EmptyLedger]
    /\ verdict = [p \in Procs |-> "none"]
    /\ exitCode = [p \in Procs |-> -1]
    /\ reads = [p \in Procs |-> 0]
    /\ writes = [p \in Procs |-> 0]
    /\ store0 = [p \in Procs |-> Absent]
    /\ prev = [p \in Procs |-> NoPrev]
    /\ result = EmptyCounts
    /\ todo = << >>
    /\ item = NoItem
    /\ prior = EmptyCounts
    /\ initial = store

BoundedSpec ==
    BoundedInit /\ [][ConcNext]_vars

\* --------------------------------------------------------- the scanner

\* count_suppressed_lints: the attributes of the file are counted with the
\* number of its items, then count_lints_in_items walks the items.
StartScan ==
    /\ todo = << >>
    /\ \E attrs \in AttrLists, n \in 0..MaxItems :
          /\ result' = count_lints_in_attrs(EmptyCounts, attrs, n)
          /\ todo' = Unwind(<<n>>)
          /\ item' = SourceFile(attrs, n)
    /\ prior' = EmptyCounts
    /\ UNCHANGED mainVars

\* One turn of the loop of count_lints_in_items on the next item of the
\* innermost body; an inline module with items opens a loop over them.
VisitItem ==
    /\ todo # << >>
    /\ \E it \in Items :
          /\ Descends(it) => Len(todo) < MaxDepth
          /\ LET counted == count_lints_in_item(result, it)
                 rest == [todo EXCEPT ![Len(todo)] = @ - 1]
             IN /\ \A l \in DOMAIN counted : counted[l] <= MaxTally
                /\ result' = counted
                /\ todo' = Unwind(IF Descends(it) THEN Append(rest, it.len) ELSE rest)
          /\ item' = it
    /\ prior' = result
    /\ UNCHANGED mainVars

ScanNext ==
    StartScan \/ VisitItem

ScanSpec ==
    Init /\ [][ScanNext]_vars

\* ----------------------------------------------------------------- claims

\* The count a ledger holds for a (file, lint) pair; a pair without an entry
\* counts as 0.
HasPair(ledger, f, l) ==
    f \in DOMAIN ledger /\ l \in DOMAIN ledger[f]

Count(ledger, f, l) ==
    IF HasPair(ledger, f, l) THEN ledger[f][l] ELSE 0

Pairs(ledger) ==
    {<<f, l>> \in Names \X Lints : HasPair(ledger, f, l)}

\* The invocation has compared: `loaded` and `verdict` are what it read and
\* what vis_a_vis returned.
Compared(p) ==
    verdict[p] # "none"

\* C1 (ratchet): in sequential invocations, from the moment an invocation
\* that runs without the override (UPDATE_ANYWAY is not "1") starts until it
\* has ended, no (file, lint) pair has a larger count in the persisted store
\* than it had when the invocation began; a pair that had no entry then
\* (count 0) has no positive count now.
C1_Ratchet ==
    \A p \in Procs :
        (pc[p] # "idle" /\ env[p] # "1") =>
            \A f \in Names, l \in Lints :
                Count(store.lints, f, l) <= Count(store0[p].lints, f, l)

\* C1 witness: a run without the override has ended with the store rewritten
\* and a count in it lowered.
C1_Witness ==
    \E p \in Procs :
        /\ pc[p] = "done" /\ env[p] # "1" /\ writes[p] = 1
        /\ \E f \in Names, l \in Lints :
              Count(store.lints, f, l) < Count(store0[p].lints, f, l)

\* Some pair of Observed is larger than in Baseline, or is positive and has
\* no Baseline entry.
Regressed(obs, base) ==
    \E f \in DOMAIN obs : \E l \in DOMAIN obs[f] :
        \/ HasPair(base, f, l) /\ obs[f][l] > base[f][l]
        \/ ~HasPair(base, f, l) /\ obs[f][l] > 0

\* Some pair of Observed is smaller than in Baseline, or a positive Baseline
\* lint of a scanned file is gone from Observed.
Improved(obs, base) ==
    \E f \in DOMAIN obs \cap DOMAIN base : \E l \in DOMAIN base[f] :
        Count(obs, f, l) < base[f][l]

\* C2 (regression detection): whenever some pair of Observed has a count
\* greater than its Baseline count, or a count > 0 and no Baseline entry,
\* the verdict of the comparison is NotASubset, whatever improvements the
\* same run holds.
C2_RegressionDetected ==
    \A p \in Procs :
        (Compared(p) /\ Regressed(observed[p], loaded[p])) =>
            verdict[p] = "NotASubset"

\* C2 witness: a run with both a regression and an improvement was compared
\* and rejected.
C2_Witness ==
    \E p \in Procs :
        /\ Compared(p)
        /\ Regressed(observed[p], loaded[p])
        /\ Improved(observed[p], loaded[p])
        /\ verdict[p] = "NotASubset"

\* C3 (subset law): if every pair of Observed has a Baseline entry and a
\* count no larger than it, the verdict is ProperSubset or Expected, never
\* NotASubset.
C3_SubsetLaw ==
    \A p \in Procs :
        (/\ Compared(p)
         /\ \A f \in DOMAIN observed[p] : \A l \in DOMAIN observed[p][f] :
               HasPair(loaded[p], f, l) /\ observed[p][f][l] <= loaded[p][f][l])
        => verdict[p] \in {"ProperSubset", "Expected"}

\* C3 witness: Observed holds a pair equal to its Baseline count and a pair
\* below it, and the verdict is ProperSubset.
C3_Witness ==
    \E p \in Procs :
        /\ verdict[p] = "ProperSubset"
        /\ \A f \in DOMAIN observed[p] : \A l \in DOMAIN observed[p][f] :
               HasPair(loaded[p], f, l) /\ observed[p][f][l] <= loaded[p][f][l]
        /\ \E f \in DOMAIN observed[p] : \E l \in DOMAIN observed[p][f] :
               observed[p][f][l] = loaded[p][f][l]
        /\ \E f \in DOMAIN observed[p] : \E l \in DOMAIN observed[p][f] :
               observed[p][f][l] < loaded[p][f][l]

\* C4 (shrink result): when the verdict is ProperSubset, after the update
\* every file of examinedFiles that Baseline holds has, for each lint of its
\* Baseline entry, the count min(baselineCount, observedCount), a lint that
\* Observed lacks (also because the whole file is missing from Observed)
\* counting 0; and that is what the store holds when the run is done.
C4_ShrinkResult ==
    \A p \in Procs :
        verdict[p] = "ProperSubset" =>
            \A f \in args[p] \cap DOMAIN loaded[p] : \A l \in DOMAIN loaded[p][f] :
                /\ Count(expected[p], f, l)
                      = Min(loaded[p][f][l], Count(observed[p], f, l))
                /\ pc[p] = "done" =>
                      Count(store.lints, f, l)
                        = Min(loaded[p][f][l], Count(observed[p], f, l))

\* C4 witness: a ProperSubset run is done; it lowered one Baseline count to a
\* smaller positive observed count and emptied the entry of an examined file
\* that could not be scanned.
C4_Witness ==
    \E p \in Procs :
        /\ verdict[p] = "ProperSubset" /\ pc[p] = "done"
        /\ \E f \in args[p] \cap DOMAIN loaded[p] : \E l \in DOMAIN loaded[p][f] :
              /\ Count(observed[p], f, l) > 0
              /\ Count(observed[p], f, l) < loaded[p][f][l]
              /\ Count(store.lints, f, l) = Count(observed[p], f, l)
        /\ \E f \in (args[p] \cap DOMAIN loaded[p]) \ DOMAIN observed[p] :
              \E l \in DOMAIN loaded[p][f] :
                 loaded[p][f][l] > 0 /\ Count(store.lints, f, l) = 0

\* The verdict vis_a_vis gives when the Baseline entry of file f is v.
VerdictWith(p, f, v) ==
    vis_a_vis(observed[p], [loaded[p] EXCEPT ![f] = v])

\* C5 (untouched files): for a file that Baseline holds and examinedFiles
\* does not, (1) the verdict is the same for every value of that file's
\* Baseline entry, and (2) the shrink and the grow update leave that entry
\* as it was loaded, in memory and in the store the finished run wrote.
C5_UntouchedFile ==
    \A p \in Procs :
        Compared(p) =>
            \A f \in DOMAIN loaded[p] \ args[p] :
                /\ \A v \in LintCounts(0) : VerdictWith(p, f, v) = verdict[p]
                /\ f \in DOMAIN expected[p] /\ expected[p][f] = loaded[p][f]
                /\ (pc[p] = "done" /\ writes[p] = 1) =>
                      f \in DOMAIN store.lints /\ store.lints[f] = loaded[p][f]

\* C5 witness: a run that rewrote the store is done, and Baseline held
\* positive counts for a file that was not examined.
C5_Witness ==
    \E p \in Procs :
        /\ pc[p] = "done" /\ writes[p] = 1
        /\ store.lints # loaded[p]
        /\ \E f \in DOMAIN loaded[p] \ args[p] : \E l \in DOMAIN loaded[p][f] :
              loaded[p][f][l] > 0

\* The verdict permits a change of the store: ProperSubset, or NotASubset
\* with UPDATE_ANYWAY exactly "1".
MayPersist(p) ==
    \/ verdict[p] = "ProperSubset"
    \/ verdict[p] = "NotASubset" /\ env[p] = "1"

\* C6 (persistence policy): an invocation reads the store at most once and
\* writes it at most once; one that has completed has read it once, has
\* written it if and only if the verdict is ProperSubset, or NotASubset with
\* UPDATE_ANYWAY exactly "1", and has otherwise left the store exactly as it
\* was when the invocation began.
C6_PersistencePolicy ==
    \A p \in Procs :
        /\ reads[p] <= 1
        /\ writes[p] <= 1
        /\ pc[p] = "done" =>
              /\ reads[p] = 1
              /\ writes[p] = 1 <=> MayPersist(p)
              /\ ~MayPersist(p) => store = store0[p]

\* C6 witness: a NotASubset run whose UPDATE_ANYWAY was set, but not to "1",
\* is done and the store, a ledger, is as it was.
C6_Witness ==
    \E p \in Procs :
        /\ pc[p] = "done" /\ verdict[p] = "NotASubset"
        /\ env[p] \notin {EnvUnset, "1"}
        /\ writes[p] = 0
        /\ store.kind = "complete" /\ store = store0[p]

\* C7 (exit codes): a completed invocation exits with 0 exactly when the
\* verdict is Expected, with 2 exactly when it is ProperSubset, and then the
\* store holds the shrunk Baseline, and with 1 exactly when it is
\* NotASubset, also when the override had the store grown and rewritten.
C7_ExitCodes ==
    \A p \in Procs :
        pc[p] = "done" =>
            /\ exitCode[p] = 0 <=> verdict[p] = "Expected"
            /\ exitCode[p] = 2 <=> verdict[p] = "ProperSubset"
            /\ exitCode[p] = 1 <=> verdict[p] = "NotASubset"
            /\ exitCode[p] = 2 =>
                  writes[p] = 1 /\ store = Complete(expected[p])
            /\ (verdict[p] = "NotASubset" /\ env[p] = "1") =>
                  /\ exitCode[p] = 1
                  /\ writes[p] = 1 /\ store = Complete(expected[p])

\* C7 witness: a NotASubset run with the override is done with exit code 1
\* and a store that grew.
C7_Witness ==
    \E p \in Procs :
        /\ pc[p] = "done" /\ verdict[p] = "NotASubset" /\ env[p] = "1"
        /\ exitCode[p] = 1
        /\ \E f \in Names, l \in Lints :
              Count(store.lints, f, l) > Count(store0[p].lints, f, l)

\* C8 as stated (idempotence): whatever the verdict of an invocation, a
\* second invocation over the same arguments and file contents, against the
\* store as the first left it, yields Expected.
C8_Original ==
    \A p \in Procs :
        (prev[p] # "none" /\ Compared(p)) => verdict[p] = "Expected"

\* C8 amended (idempotence): after an invocation whose verdict was Expected
\* or ProperSubset, a second invocation over the same arguments and file
\* contents, against the store as the first left it, yields Expected.
C8_Idempotent ==
    \A p \in Procs :
        (prev[p] \in {"Expected", "ProperSubset"} /\ Compared(p)) =>
            verdict[p] = "Expected"

\* C8 witness: the repeat of an Expected run over files with suppressions
\* that Baseline allows has been compared, and is Expected.
C8_Witness ==
    \E p \in Procs :
        /\ prev[p] = "Expected" /\ verdict[p] = "Expected"
        /\ \E f \in DOMAIN observed[p] : \E l \in DOMAIN observed[p][f] :
              observed[p][f][l] > 0 /\ HasPair(loaded[p], f, l)

\* `after` holds no file or lint entry that `before` lacks and no count
\* above the one in `before`.
NeverRaised(before, after) ==
    /\ DOMAIN after \subseteq DOMAIN before
    /\ \A f \in DOMAIN after :
          /\ DOMAIN after[f] \subseteq DOMAIN before[f]
          /\ \A l \in DOMAIN after[f] : after[f][l] <= before[f][l]

\* C9 (shrink monotonicity): for every Baseline and Observed an invocation
\* can have loaded and scanned, whatever their relationship, and every set of
\* examined files, the shrink update raises no count of Baseline and adds no
\* file or lint entry to it; so the Baseline that a ProperSubset run holds
\* after its update.
C9_ShrinkMonotone ==
    \A p \in Procs :
        /\ pc[p] = "loaded" =>
              \A ex \in SUBSET Names :
                  NeverRaised(loaded[p], shrink_around(loaded[p], observed[p], ex))
        /\ verdict[p] = "ProperSubset" => NeverRaised(loaded[p], expected[p])

\* C9 witness: a ProperSubset run has shrunk its Baseline: one count is
\* lower, another is as it was.
C9_Witness ==
    \E p \in Procs :
        /\ verdict[p] = "ProperSubset" /\ pc[p] = "sweeping"
        /\ \E f \in Names, l \in Lints :
              Count(expected[p], f, l) < Count(loaded[p], f, l)
        /\ \E f \in Names, l \in Lints :
              /\ HasPair(expected[p], f, l)
              /\ expected[p][f][l] > 0
              /\ expected[p][f][l] = loaded[p][f][l]

\* The invocation found NotASubset under the override and grew its Baseline.
Grown(p) ==
    verdict[p] = "NotASubset" /\ env[p] = "1"

\* C10 (grow update): on NotASubset with the override, after the update
\* every pair of Observed has the Baseline count max(existingCount,
\* observedCount), a pair without an entry being inserted at the observed
\* count; no pair of Baseline has a lower count, the pairs that Observed
\* does not name are unchanged, and the finished run has stored the result.
C10_GrowResult ==
    \A p \in Procs :
        Grown(p) =>
            /\ \A pr \in Pairs(observed[p]) :
                  /\ HasPair(expected[p], pr[1], pr[2])
                  /\ expected[p][pr[1]][pr[2]]
                        = Max(Count(loaded[p], pr[1], pr[2]),
                              observed[p][pr[1]][pr[2]])
            /\ \A pr \in Pairs(loaded[p]) :
                  /\ HasPair(expected[p], pr[1], pr[2])
                  /\ expected[p][pr[1]][pr[2]] >= loaded[p][pr[1]][pr[2]]
            /\ \A pr \in (Names \X Lints) \ Pairs(observed[p]) :
                  /\ HasPair(expected[p], pr[1], pr[2])
                        <=> HasPair(loaded[p], pr[1], pr[2])
                  /\ Count(expected[p], pr[1], pr[2])
                        = Count(loaded[p], pr[1], pr[2])
            /\ pc[p] = "done" => store = Complete(expected[p])

\* C10 witness: a grown run is done; one observed pair was inserted, one
\* was raised, and one kept the larger count Baseline had.
C10_Witness ==
    \E p \in Procs :
        /\ Grown(p) /\ pc[p] = "done"
        /\ \E pr \in Pairs(observed[p]) : ~HasPair(loaded[p], pr[1], pr[2])
        /\ \E pr \in Pairs(observed[p]) \cap Pairs(loaded[p]) :
              loaded[p][pr[1]][pr[2]] < observed[p][pr[1]][pr[2]]
        /\ \E pr \in Pairs(observed[p]) \cap Pairs(loaded[p]) :
              /\ loaded[p][pr[1]][pr[2]] > observed[p][pr[1]][pr[2]]
              /\ store.lints[pr[1]][pr[2]] = loaded[p][pr[1]][pr[2]]

\* The run was given a .rs file that can be read and is not valid Rust.
ParseError(p) ==
    \E n \in args[p] : contents[p][n].kind = "bad"

\* C11 (ParseError abort): when a scanned file of the list does not parse,
\* the run is in the aborted terminal state; it has compared nothing, has
\* not read or written the store, and the store is as it was when the run
\* began, whatever the other files of the list hold.
C11_ParseErrorAborts ==
    \A p \in Procs :
        (pc[p] # "idle" /\ ParseError(p)) =>
            /\ pc[p] = "aborted"
            /\ verdict[p] = "none"
            /\ reads[p] = 0 /\ writes[p] = 0
            /\ store = store0[p]

\* C11 witness: a run has aborted on a file that does not parse while
\* another file of its list holds a suppression that the store lacks and
\* lacks one that the store holds.
C11_Witness ==
    \E p \in Procs :
        /\ pc[p] = "aborted" /\ ParseError(p)
        /\ \E n \in args[p] : \E l, m \in Lints :
              /\ contents[p][n].kind = "parsed"
              /\ l \in DOMAIN contents[p][n].lints
              /\ Count(store.lints, n, l) = 0
              /\ m \notin DOMAIN contents[p][n].lints
              /\ Count(store.lints, n, m) > 0

\* C12 (atomic persistence): when a run has failed, the store holds the
\* complete content it had when the run began or the complete content the
\* run set out to write; it is never empty, truncated or partly written.
C12_AtomicPersistence ==
    \A p \in Procs :
        pc[p] = "aborted" =>
            store = store0[p] \/ store = Complete(expected[p])

\* C14 (improvement by omission): when pass 1 found no violation, every
\* examined file that Baseline holds, with a lint that Baseline records at
\* a positive count and Observed lacks (or has at 0), makes the verdict
\* ProperSubset.
C14_ImprovementByOmission ==
    \A p \in Procs :
        (Compared(p) /\ verdict[p] # "NotASubset") =>
            \A f \in args[p] \cap DOMAIN loaded[p] :
                \A l \in DOMAIN loaded[p][f] :
                    (loaded[p][f][l] > 0 /\ Count(observed[p], f, l) = 0) =>
                        verdict[p] = "ProperSubset"

\* The ledger without its entry for f, and with an empty entry for f.
WithoutFile(ledger, f) ==
    [k \in DOMAIN ledger \ {f} |-> ledger[k]]

WithEmptyFile(ledger, f) ==
    [k \in DOMAIN ledger \cup {f} |->
        IF k = f THEN EmptyCounts ELSE ledger[k]]

EmptyOrAbsent(ledger, f) ==
    f \in DOMAIN ledger => DOMAIN ledger[f] = {}

\* The ledger with f absent where it had an empty entry, and the reverse.
OtherForm(ledger, f) ==
    IF f \in DOMAIN ledger
    THEN WithoutFile(ledger, f)
    ELSE WithEmptyFile(ledger, f)

SameCounts(a, b) ==
    \A f \in Names, l \in Lints : Count(a, f, l) = Count(b, f, l)

\* The two updates give the same counts on (obs, base) as the run has.
SameUpdates(p, obs, base) ==
    /\ SameCounts(shrink_around(base, obs, args[p]),
                  shrink_around(loaded[p], observed[p], args[p]))
    /\ SameCounts(grow_around(base, obs), grow_around(loaded[p], observed[p]))

\* The comparison of the run has just been made.
JustCompared(p) ==
    pc[p] = "sweeping" \/ (pc[p] = "done" /\ writes[p] = 0)

\* C16 (empty entry equivalence): with the examined files held fixed,
\* exchanging an empty entry of a file for its absence, or its absence for an
\* empty entry, in Baseline or (for an examined file) in Observed, changes
\* neither the verdict nor the counts that shrink and grow produce.
C16_EmptyEntryEquivalence ==
    \A p \in Procs :
        JustCompared(p) =>
            /\ \A f \in Names :
                  EmptyOrAbsent(loaded[p], f) =>
                      /\ vis_a_vis(observed[p], OtherForm(loaded[p], f)) = verdict[p]
                      /\ SameUpdates(p, observed[p], OtherForm(loaded[p], f))
            /\ \A f \in args[p] :
                  EmptyOrAbsent(observed[p], f) =>
                      /\ vis_a_vis(OtherForm(observed[p], f), loaded[p]) = verdict[p]
                      /\ SameUpdates(p, OtherForm(observed[p], f), loaded[p])

\* C18 (retry convergence): the retry of a run that ended ProperSubset, over
\* the same files with unchanged contents, once compared is Expected; it
\* ends with exit status 0 and has not written the store, which is as the
\* first run left it.
C18_RetryConverges ==
    \A p \in Procs :
        (prev[p] = "ProperSubset" /\ pc[p] # "loaded") =>
            /\ pc[p] = "done"
            /\ verdict[p] = "Expected" /\ exitCode[p] = 0
            /\ writes[p] = 0 /\ store = store0[p]

\* C18 witness: the retry of a ProperSubset run has ended with exit status
\* 0 against a store that the first run lowered to the observed counts.
C18_Witness ==
    \E p \in Procs :
        /\ prev[p] = "ProperSubset" /\ pc[p] = "done" /\ exitCode[p] = 0
        /\ \E f \in Names, l \in Lints :
              Count(store.lints, f, l) > 0
        /\ \E f \in Names, l \in Lints :
              HasPair(store.lints, f, l) /\ store.lints[f][l] = 0

\* C19 (override accepts the regression): the next run after a NotASubset
\* run that grew and stored its Baseline under the override, over the same
\* unchanged files, is never NotASubset.
C19_OverrideAccepts ==
    \A p \in Procs :
        (prev[p] = "Grown" /\ Compared(p)) =>
            /\ verdict[p] # "NotASubset"
            /\ ~Regressed(observed[p], loaded[p])

\* C19 witness: the run after a grow has been compared against a Baseline
\* that holds every observed pair at its observed count or above.
C19_Witness ==
    \E p \in Procs :
        /\ prev[p] = "Grown" /\ Compared(p)
        /\ Pairs(observed[p]) # {}
        /\ \E f \in Names, l \in Lints :
              Count(loaded[p], f, l) > Count(observed[p], f, l)

\* The run began with no store and without the override.
Bootstrap(p) ==
    pc[p] # "idle" /\ store0[p] = Absent /\ ~UpdateAnyway(env[p])

\* C20 (bootstrap without override): a run that begins with no store and
\* without the override leaves the store absent, so that the next run
\* begins as it did; its verdict is never ProperSubset, it is NotASubset
\* when the scanned files hold a suppression and Expected when they hold
\* none.
C20_Bootstrap ==
    \A p \in Procs :
        Bootstrap(p) =>
            /\ store = Absent /\ writes[p] = 0
            /\ Compared(p) =>
                  /\ verdict[p] # "ProperSubset"
                  /\ Pairs(observed[p]) # {} => verdict[p] = "NotASubset"
                  /\ Pairs(observed[p]) = {} => verdict[p] = "Expected"

\* C20 witness: a run with no store and without the override has ended
\* NotASubset with exit status 1 and there is still no store.
C20_Witness ==
    \E p \in Procs :
        /\ Bootstrap(p) /\ pc[p] = "done"
        /\ verdict[p] = "NotASubset" /\ exitCode[p] = 1
        /\ store = Absent

\* The count of a lint in the counts of one file, 0 without an entry.
Tally(counts, l) ==
    IF l \in DOMAIN counts THEN counts[l] ELSE 0

\* How many times the #[allow(..)] attributes of the list name the lint.
RECURSIVE Named(_, _)
Named(attrs, l) ==
    IF attrs = << >>
    THEN 0
    ELSE Named(Tail(attrs), l)
         + IF Head(attrs).path = "allow"
           THEN Cardinality({i \in DOMAIN Head(attrs).nested :
                                Head(attrs).nested[i] = l})
           ELSE 0

\* How many suppressions of the lint the declarations of a body carry.
RECURSIVE NamedInside(_, _)
NamedInside(body, l) ==
    IF body = << >>
    THEN 0
    ELSE Named(Head(body), l) + NamedInside(Tail(body), l)

ContainerKinds ==
    {"Mod", "Impl", "Trait", "ForeignMod"}

\* C13 (container weight): handling a module, impl, trait or extern block
\* with n directly nested declarations adds max(n, 1) to the count of a
\* lint for each time the block's suppression attributes name it; a block
\* of 3 declarations with one suppression of dead_code adds 3.
C13_ContainerWeight ==
    item.kind \in ContainerKinds =>
        \A l \in Lints :
            Tally(result, l) =
                Tally(prior, l) + Named(item.attrs, l) * Max(item.len, 1)

\* C15 (recursive counting): a suppression attribute on a declaration
\* inside a module, impl, trait or extern block is counted in addition to
\* what the block's own attributes add. (The declarations of an inline
\* module are the items the walk handles next, each under this formula or
\* counted as a plain declaration; those of the other blocks are in
\* item.items.)
C15_RecursiveCounting ==
    item.kind \in ContainerKinds =>
        \A l \in Lints :
            Tally(result, l) =
                Tally(count_lints_in_attrs(prior, item.attrs, ItemCount(item)), l)
                + NamedInside(item.items, l)

\* Both invocations have rewritten the store from the same loaded Baseline,
\* over different files, and q's content is what the store holds.
WroteOver(p, q) ==
    /\ p # q
    /\ pc[p] = "done" /\ writes[p] = 1
    /\ pc[q] = "done" /\ writes[q] = 1
    /\ loaded[p] = loaded[q]
    /\ args[p] \cap args[q] = {}
    /\ store = Complete(expected[q])

\* C17 (lost update): when two concurrent invocations have each loaded the
\* Baseline before the other wrote and each has rewritten the store, over
\* different files, the store is the ledger of the one that wrote last:
\* every count of the other's files is what both had loaded, whatever the
\* other had lowered it to.
C17_LostUpdate ==
    \A p, q \in Procs :
        WroteOver(p, q) =>
            \A f \in args[p], l \in Lints :
                Count(store.lints, f, l) = Count(loaded[p], f, l)

\* C17 witness: both invocations found an improvement and wrote; the store
\* holds the count that the last writer lowered, and the count that the
\* first writer had lowered is back at the loaded, higher value.
C17_Witness ==
    \E p, q \in Procs :
        /\ WroteOver(p, q)
        /\ verdict[p] = "ProperSubset" /\ verdict[q] = "ProperSubset"
        /\ \E f \in args[p], l \in Lints :
              /\ Count(expected[p], f, l) < Count(loaded[p], f, l)
              /\ Count(store.lints, f, l) = Count(loaded[p], f, l)
        /\ \E g \in args[q], l \in Lints :
              Count(store.lints, g, l) < Count(loaded[q], g, l)

\* C21 (bounded by the initial store under concurrency): however the steps
\* of concurrent invocations without the override interleave, in every
\* state of the store every (file, lint) pair counts at most what it
\* counted in the initial store; a pair that the initial store lacks
\* (count 0) never has a positive count.
C21_BoundedByInitial ==
    \A f \in Names, l \in Lints :
        Count(store.lints, f, l) <= Count(initial.lints, f, l)

\* C21 witness: two invocations that had loaded the same Baseline have both
\* rewritten the store; one count is below the initial one, the initial
\* store lacks a lint that one of them scanned, and a count that the first
\* writer lowered is back where it was.
C21_Witness ==
    \E p, q \in Procs :
        /\ WroteOver(p, q)
        /\ \E f \in Names, l \in Lints :
              Count(store.lints, f, l) < Count(initial.lints, f, l)
        /\ \E f \in args[p], l \in Lints :
              /\ Count(expected[p], f, l) < Count(initial.lints, f, l)
              /\ Count(store.lints, f, l) = Count(initial.lints, f, l)
        /\ \E l \in Lints : \A f \in Names : ~HasPair(initial.lints, f, l)

=============================================================================
